---- MODULE Spec2Model ----
(***************************************************************************)
(* Request-dispatch and token-budget subsystem of the LLM client:          *)
(* token estimation and context fitting (src/utils/token_utils.py) and the *)
(* retry/backoff loop of LLMClient.chat (src/utils/llm_client.py).         *)
(*                                                                         *)
(* Text is a sequence of characters.  The tokenizer is a byte-pair encoder *)
(* with one merge rule ("a" followed by "b" is the single token "ab"), so  *)
(* a token count is not a character count and cutting a token list cuts    *)
(* the text at token boundaries only.  Time is counted in microseconds.    *)
(***************************************************************************)
EXTENDS Integers, Sequences, FiniteSets, TLC

\* ---------------------------------------------------------------- bounds
MaxLen == 3          \* longest message content, in characters
MaxMsgs == 3         \* longest message list handed to fit_within_context
MaxBudget == 16      \* largest max_context_tokens tried
MaxRetries == 2      \* largest max_retries a client is built with

\* ------------------------------------------------------------- tokenizer
RECURSIVE encode(_)
\* enc.encode(text, disallowed_special=()): text to tokens
encode(text) ==
    IF text = <<>> THEN <<>>
    ELSE IF Len(text) >= 2 /\ text[1] = "a" /\ text[2] = "b"
         THEN <<"ab">> \o encode(SubSeq(text, 3, Len(text)))
         ELSE <<text[1]>> \o encode(Tail(text))

RECURSIVE decode(_)
\* enc.decode(tokens): tokens back to text
decode(tokens) ==
    IF tokens = <<>> THEN <<>>
    ELSE (IF tokens[1] = "ab" THEN <<"a", "b">> ELSE <<tokens[1]>>)
         \o decode(Tail(tokens))

\* Python's seq[:n]: the first n elements, and for n < 0 all but the last -n
SliceTo(seq, n) ==
    IF n >= 0
    THEN SubSeq(seq, 1, IF n < Len(seq) THEN n ELSE Len(seq))
    ELSE SubSeq(seq, 1, IF Len(seq) + n > 0 THEN Len(seq) + n ELSE 0)

\* the literal "... [truncated]" appended to a truncated content
Marker == <<"...", " [", "truncated", "]">>

RECURSIVE SumLen(_)
\* the sum of the token counts of a list of context strings
SumLen(strs) ==
    IF strs = <<>> THEN 0 ELSE Len(encode(strs[1])) + SumLen(Tail(strs))

RECURSIVE InputTokensSkipEmpty(_)
\* the loop charging the 4 units only to messages that have content
InputTokensSkipEmpty(msgs) ==
    IF msgs = <<>> THEN 0
    ELSE (IF msgs[1].content = <<>> THEN 0 ELSE 4 + Len(encode(msgs[1].content)))
         + InputTokensSkipEmpty(Tail(msgs))

RECURSIVE InputTokens(_)
\* the loop of count_messages_tokens: 4 per message plus its content's tokens
InputTokens(msgs) ==
    IF msgs = <<>> THEN 0
    ELSE 4 + Len(encode(msgs[1].content)) + InputTokens(Tail(msgs))

count_messages_tokens(msgs, ctx) ==
    LET input_tokens == InputTokens(msgs)
        context_tokens == SumLen(ctx)
        overhead == 3
    IN  [input_tokens |-> input_tokens,
         context_tokens |-> context_tokens,
         estimated_total |-> input_tokens + context_tokens + overhead]

estimate_prompt_tokens(msgs, ctx) == count_messages_tokens(msgs, ctx).estimated_total

\* ----------------------------------------------------------- context fit
\* only a leading system message is taken for one
SystemMsgsLeading(msgs) ==
    IF msgs # <<>> /\ msgs[1].role = "system" THEN <<msgs[1]>> ELSE <<>>

\* [m for m in adjusted if m.get("role") == "system"]
SystemMsgs(msgs) == SelectSeq(msgs, LAMBDA m : m.role = "system")
\* [m for m in adjusted if m.get("role") != "system"]
OtherMsgs(msgs) == SelectSeq(msgs, LAMBDA m : m.role # "system")

RECURSIVE DropNewest(_, _, _, _)
\* the loop popping the newest message, pop(), instead of the oldest
DropNewest(system_msgs, other_msgs, ctx, max_context_tokens) ==
    IF Len(other_msgs) > 1
       /\ estimate_prompt_tokens(system_msgs \o other_msgs, ctx) > max_context_tokens
    THEN DropNewest(system_msgs, SubSeq(other_msgs, 1, Len(other_msgs) - 1), ctx,
                    max_context_tokens)
    ELSE other_msgs

RECURSIVE DropOldestToNone(_, _, _, _)
\* the drop loop running while any non-system message remains
DropOldestToNone(system_msgs, other_msgs, ctx, max_context_tokens) ==
    IF Len(other_msgs) > 0
       /\ estimate_prompt_tokens(system_msgs \o other_msgs, ctx) > max_context_tokens
    THEN DropOldestToNone(system_msgs, Tail(other_msgs), ctx, max_context_tokens)
    ELSE other_msgs

RECURSIVE DropOldest(_, _, _, _)
\* the while loop: pop(0) while more than one is left and still over budget
DropOldest(system_msgs, other_msgs, ctx, max_context_tokens) ==
    IF Len(other_msgs) > 1
       /\ estimate_prompt_tokens(system_msgs \o other_msgs, ctx) > max_context_tokens
    THEN DropOldest(system_msgs, Tail(other_msgs), ctx, max_context_tokens)
    ELSE other_msgs

\* the body of "if still over budget": the last message, content cut to fit
TruncateLast(system_msgs, other_msgs, max_context_tokens) ==
    LET last_msg == other_msgs[Len(other_msgs)]
        overhead == 4 * (Len(system_msgs) + 1) + 3
        available_tokens == max_context_tokens - overhead
        tokens == encode(last_msg.content)
    IN  IF Len(tokens) > available_tokens
        THEN [other_msgs EXCEPT ![Len(other_msgs)] =
                 [last_msg EXCEPT !.content =
                     decode(SliceTo(tokens, available_tokens)) \o Marker]]
        ELSE other_msgs

\* the truncate branch of fit_within_context
FitTruncate(msgs, ctx, max_context_tokens, current_tokens) ==
    LET system_msgs == SystemMsgs(msgs)
        dropped == DropOldest(system_msgs, OtherMsgs(msgs), ctx, max_context_tokens)
        other_msgs ==
            IF estimate_prompt_tokens(system_msgs \o dropped, ctx) > max_context_tokens
               /\ dropped # <<>>
            THEN TruncateLast(system_msgs, dropped, max_context_tokens)
            ELSE dropped
    IN  [messages |-> system_msgs \o other_msgs,
         context_strs |-> ctx,
         meta |-> [overflow |-> TRUE,
                   original_tokens |-> current_tokens,
                   strategy |-> "truncate",
                   messages_removed |->
                       Len(msgs) - Len(system_msgs) - Len(other_msgs)]]

\* the budget test with < for <=
FitsBudgetStrict(current_tokens, max_context_tokens) == current_tokens < max_context_tokens

\* the early return of fit_within_context: the input fits
FitsBudget(current_tokens, max_context_tokens) == current_tokens <= max_context_tokens

\* a summarize branch that makes room itself, by leaving the context strings out
FitSummarizeDropsContext(msgs, ctx, current_tokens) ==
    [messages |-> msgs, context_strs |-> <<>>,
     meta |-> [overflow |-> TRUE,
               original_tokens |-> current_tokens,
               strategy |-> "summarize",
               action_required |-> "Use overflow_summarize prompt"]]

\* the summarize branch of fit_within_context
FitSummarize(msgs, ctx, current_tokens) ==
    [messages |-> msgs, context_strs |-> ctx,
     meta |-> [overflow |-> TRUE,
               original_tokens |-> current_tokens,
               strategy |-> "summarize",
               action_required |-> "Use overflow_summarize prompt"]]

\* a last line that owns up to the overflow
FitFallThroughOverflow(msgs, ctx) ==
    [messages |-> msgs, context_strs |-> ctx, meta |-> [overflow |-> TRUE]]

\* the last line of fit_within_context, reached with any other strategy
FitFallThrough(msgs, ctx) ==
    [messages |-> msgs, context_strs |-> ctx, meta |-> [overflow |-> FALSE]]

fit_within_context(msgs, max_context_tokens, strategy, ctx) ==
    LET current_tokens == estimate_prompt_tokens(msgs, ctx)
    IN  IF FitsBudget(current_tokens, max_context_tokens)
        THEN [messages |-> msgs, context_strs |-> ctx,
              meta |-> [overflow |-> FALSE, original_tokens |-> current_tokens]]
        ELSE IF strategy = "truncate"
        THEN FitTruncate(msgs, ctx, max_context_tokens, current_tokens)
        ELSE IF strategy = "summarize"
        THEN FitSummarize(msgs, ctx, current_tokens)
        ELSE FitFallThrough(msgs, ctx)

\* ------------------------------------------- the fit, object by object
\* The same function on Python's objects.  A message dict is known by its
\* place in `dicts`, a list is the sequence of the dicts it refers to.  The
\* caller's list is `messages`; `returned` is the list handed back.
HeapOf(msgs) ==
    [dicts |-> msgs,
     messages |-> [i \in 1..Len(msgs) |-> i],
     system_msgs |-> <<>>,
     other_msgs |-> <<>>,
     returned |-> [i \in 1..Len(msgs) |-> i]]

\* the message dicts a list refers to
Deref(h, list) == [i \in 1..Len(list) |-> h.dicts[list[i]]]

RECURSIVE SelectIds(_, _, _)
\* a list comprehension over `adjusted`: the dicts of `list` whose role is
\* (want = TRUE) or is not (want = FALSE) "system", in a new list
SelectIds(h, list, want) ==
    IF list = <<>> THEN <<>>
    ELSE (IF (h.dicts[list[1]].role = "system") = want THEN <<list[1]>> ELSE <<>>)
         \o SelectIds(h, Tail(list), want)

\* adjusted = messages.copy() and the two comprehensions
CopyAndSplit(h) ==
    [h EXCEPT !.system_msgs = SelectIds(h, h.messages, TRUE),
              !.other_msgs = SelectIds(h, h.messages, FALSE)]

\* other_msgs.pop(0)
PopOldest(h) == [h EXCEPT !.other_msgs = Tail(@)]

RECURSIVE DropLoop(_, _, _)
\* the while loop, on the lists
DropLoop(h, ctx, max_context_tokens) ==
    IF Len(h.other_msgs) > 1
       /\ estimate_prompt_tokens(Deref(h, h.system_msgs \o h.other_msgs), ctx)
              > max_context_tokens
    THEN DropLoop(PopOldest(h), ctx, max_context_tokens)
    ELSE h

\* last_msg["content"] = ...: the dict the caller's list refers to is written
ReplaceLastInPlace(h, content) ==
    [h EXCEPT !.dicts[h.other_msgs[Len(h.other_msgs)]].content = content]

\* other_msgs[-1] = {**last_msg, "content": ...}: a new dict in the last slot
ReplaceLast(h, content) ==
    LET last_msg == h.dicts[h.other_msgs[Len(h.other_msgs)]]
    IN  [h EXCEPT !.dicts = Append(@, [last_msg EXCEPT !.content = content]),
                  !.other_msgs[Len(h.other_msgs)] = Len(h.dicts) + 1]

\* "if still over budget", on the objects
TruncateLastObject(h, ctx, max_context_tokens) ==
    IF estimate_prompt_tokens(Deref(h, h.system_msgs \o h.other_msgs), ctx)
           > max_context_tokens
       /\ h.other_msgs # <<>>
    THEN LET last_msg == h.dicts[h.other_msgs[Len(h.other_msgs)]]
             available_tokens == max_context_tokens - (4 * (Len(h.system_msgs) + 1) + 3)
             tokens == encode(last_msg.content)
         IN  IF Len(tokens) > available_tokens
             THEN ReplaceLast(h, decode(SliceTo(tokens, available_tokens)) \o Marker)
             ELSE h
    ELSE h

\* fit_within_context on the objects: only the truncate branch makes any
HeapAfterFit(h, max_context_tokens, strategy, ctx) ==
    IF estimate_prompt_tokens(Deref(h, h.messages), ctx) > max_context_tokens
       /\ strategy = "truncate"
    THEN LET cut == TruncateLastObject(DropLoop(CopyAndSplit(h), ctx, max_context_tokens),
                                       ctx, max_context_tokens)
         IN  [cut EXCEPT !.returned = cut.system_msgs \o cut.other_msgs]
    ELSE h

\* ---------------------------------------------------------------- inputs
\* the n-character text "aabaab..."
TextOf(n) == [i \in 1..n |-> IF i % 3 = 0 THEN "b" ELSE "a"]
\* message contents: empty, one character, and the longest
Texts == {TextOf(n) : n \in {0, 1, MaxLen}}
Roles == {"system", "user", "assistant"}
Messages == [role : Roles, content : Texts]
MessageLists == UNION {[1..n -> Messages] : n \in 0..MaxMsgs}
\* context_strs: absent or empty (both count 0 tokens), or two strings
ContextLists == {<<>>, <<TextOf(2), TextOf(3)>>}
Strategies == {"truncate", "summarize", "drop"}

\* ------------------------------------------------------ usage reconciling
\* An optional integer is a set: {} is None, {n} is the integer n.
None == {}
Some(n) == {n}

\* dict.get(key, default)
Get(dict, key, default) == IF key \in DOMAIN dict THEN dict[key] ELSE default
\* the Python expression (x or 0) of an optional integer
OrZero(x) == IF x = None THEN 0 ELSE CHOOSE n \in x : TRUE

\* the result dict as first built: estimates filled in, actual fields None
BaseUsage(estimate) ==
    [input_tokens_est |-> estimate.input_tokens,
     context_tokens_est |-> estimate.context_tokens,
     total_est |-> estimate.estimated_total,
     prompt_tokens_actual |-> None,
     completion_tokens_actual |-> None,
     total_tokens_actual |-> None]

\* the provider's naming, Gemini's tried before OpenAI's
UsageShapeGeminiFirst(provider_usage) ==
    IF DOMAIN provider_usage = {} THEN "none"
    ELSE IF "promptTokenCount" \in DOMAIN provider_usage THEN "gemini"
    ELSE IF "prompt_tokens" \in DOMAIN provider_usage THEN "openai"
    ELSE "none"

\* which naming the provider's usage dict follows: the if / elif of reconcile_usage
UsageShape(provider_usage) ==
    IF DOMAIN provider_usage = {} THEN "none"
    ELSE IF "prompt_tokens" \in DOMAIN provider_usage THEN "openai"
    ELSE IF "promptTokenCount" \in DOMAIN provider_usage THEN "gemini"
    ELSE "none"

\* the OpenAI branch
OpenAIActual(result, provider_usage) ==
    [result EXCEPT
        !.prompt_tokens_actual = provider_usage["prompt_tokens"],
        !.completion_tokens_actual =
            Get(provider_usage, "completion_tokens", Some(0)),
        !.total_tokens_actual = Get(provider_usage, "total_tokens", Some(0))]

\* the Gemini branch with the counts copied as they come, None included
GeminiActualCopied(result, provider_usage) ==
    LET p == Get(provider_usage, "promptTokenCount", None)
        c == Get(provider_usage, "candidatesTokenCount", None)
    IN  [result EXCEPT
            !.prompt_tokens_actual = p,
            !.completion_tokens_actual = c,
            !.total_tokens_actual = Some(OrZero(p) + OrZero(c))]

\* the Gemini branch
GeminiActual(result, provider_usage) ==
    LET p == OrZero(Get(provider_usage, "promptTokenCount", None))
        c == OrZero(Get(provider_usage, "candidatesTokenCount", None))
    IN  [result EXCEPT
            !.prompt_tokens_actual = Some(p),
            !.completion_tokens_actual = Some(c),
            !.total_tokens_actual = Some(p + c)]

\* the actual fields left unset only until an estimate can stand in for them
UsageWithoutActualEstimated(result) ==
    [result EXCEPT !.prompt_tokens_actual = Some(result.input_tokens_est),
                   !.completion_tokens_actual = Some(0),
                   !.total_tokens_actual = Some(result.total_est)]

\* neither naming recognised: the result dict is returned as first built
UsageWithoutActual(result) == result

reconcile_usage(estimate, provider_usage) ==
    LET result == BaseUsage(estimate)
        shape == UsageShape(provider_usage)
    IN  IF shape = "openai" THEN OpenAIActual(result, provider_usage)
        ELSE IF shape = "gemini" THEN GeminiActual(result, provider_usage)
        ELSE UsageWithoutActual(result)

\* usage dicts a provider may hand back: any of the five keys, each None or a count
UsageKeys ==
    {"prompt_tokens", "completion_tokens", "total_tokens",
     "promptTokenCount", "candidatesTokenCount"}
UsageCounts == {None, Some(0), Some(5), Some(10), Some(15)}
UsageMaps == UNION {[keys -> UsageCounts] : keys \in SUBSET UsageKeys}

\* ------------------------------------------------------------ chat inputs
\* An exception is known to the retry loop by its lower-cased message only; a
\* message is the set of the phrases it contains ("x" in error_str).
\* Beside its message an exception has what it is in fact about, which the
\* loop never sees.  The last case is a rejected request whose message quotes
\* a number, "400 ... max_tokens 5000 is too large": "500" is in its text.
ErrorCases ==
    {<<"rate_limit", {"429"}>>,
     <<"rate_limit", {"rate limit"}>>,
     <<"server_error", {"503", "server error"}>>,
     <<"timeout", {"timed out"}>>,
     <<"context_overflow", {"context", "length"}>>,
     <<"invalid_request", {"context"}>>,
     <<"authentication", {"401", "invalid api key"}>>,
     <<"invalid_request", {"400", "500"}>>}
ErrorTexts == {c[2] : c \in ErrorCases}
ProviderErrors ==
    {[kind |-> "ProviderError", text |-> c[2], indicates |-> c[1]] : c \in ErrorCases}
NoException == [kind |-> "none", text |-> {}, indicates |-> "none"]

\* the providers _init_client accepts; any other makes the constructor raise
Providers == {"openai", "google", "groq"}

\* what the provider's SDK hands to a shim: the content of the reply, which is
\* None when the reply carries none (message.content, response.text), and
\* whether the reply has usage figures (response.usage, usage_metadata)
RawReplies == [content : {None, Some(""), Some("hello")}, has_usage : BOOLEAN]

\* Python's `content or ""`
OrEmpty(content) == IF content = None THEN Some("") ELSE content

\* the usage dict of the OpenAI and Groq shims
OpenAIUsage(raw) ==
    IF raw.has_usage
    THEN [prompt_tokens |-> Some(10), completion_tokens |-> Some(5),
          total_tokens |-> Some(15)]
    ELSE [prompt_tokens |-> None, completion_tokens |-> None, total_tokens |-> None]

\* the usage dict of the Gemini shim
GeminiUsage(raw) ==
    IF raw.has_usage
    THEN [promptTokenCount |-> Some(10), candidatesTokenCount |-> Some(5)]
    ELSE <<>>

\* what a provider shim returns: {text, usage, raw}
call_openai(raw) ==
    [text |-> OrEmpty(raw.content), usage |-> OpenAIUsage(raw), raw |-> raw]

call_google(raw) ==
    [text |-> raw.content, usage |-> GeminiUsage(raw), raw |-> raw]

call_groq(raw) ==
    [text |-> OrEmpty(raw.content), usage |-> OpenAIUsage(raw), raw |-> raw]

\* the dispatch of chat on self.provider
CallProvider(provider_name, raw) ==
    IF provider_name = "openai" THEN call_openai(raw)
    ELSE IF provider_name = "google" THEN call_google(raw)
    ELSE call_groq(raw)

NoResult == [text |-> None]

\* wall-clock duration of one provider round trip, in microseconds
Durations == {0, 40500}
\* and of one that ends in an exception
FailDurations == {7000}

\* the reading of the clock the latency is counted from, taken once per call
StartTimeOnce(clock, previous) ==
    IF previous = None THEN clock ELSE CHOOSE t \in previous : TRUE

\* start_time = time.time() at the top of every attempt
StartTime(clock, previous) == clock

\* int((time.time() - start_time) * 1000), the clock in microseconds
LatencyMs(clock, start) == (clock - start) \div 1000

ChatMessageLists ==
    {<<[role |-> "user", content |-> TextOf(1)]>>,
     <<[role |-> "system", content |-> TextOf(1)],
       [role |-> "user", content |-> TextOf(3)],
       [role |-> "user", content |-> TextOf(3)]>>}
\* backoff_base in microseconds (1500 is 0.0015 s)
BackoffBases == {0, 1500}
\* backoff_jitter in percent (25 is the factor 0.25)
BackoffJitters == {0, 25}
\* hard_prompt_cap: 0 stands for None as well, both are falsy
PromptCaps == {0, 12}
\* random.random() is one of 0/JitterSteps .. JitterSteps/JitterSteps
JitterSteps == 2

\* --------------------------------------------------------- retry/backoff
RECURSIVE Pow2(_)
Pow2(n) == IF n <= 0 THEN 1 ELSE 2 * Pow2(n - 1)

\* jitter subtracted from the exponential term instead of added
calculate_backoff_minus(base, jitter_pct, attempt, r) ==
    LET base_wait == base * Pow2(attempt)
        jitter == (r * ((jitter_pct * base_wait) \div 100)) \div JitterSteps
    IN  base_wait - jitter

\* _calculate_backoff with random.random() = r / JitterSteps; microseconds
calculate_backoff(base, jitter_pct, attempt, r) ==
    LET base_wait == base * Pow2(attempt)
        jitter == (r * ((jitter_pct * base_wait) \div 100)) \div JitterSteps
    IN  base_wait + jitter

\* _is_retryable_error on the lower-cased message
is_retryable_error(error_str) ==
    \/ "429" \in error_str \/ "rate limit" \in error_str
    \/ \E x \in {"500", "502", "503", "504", "server error"} : x \in error_str
    \/ "timeout" \in error_str \/ "timed out" \in error_str
    \/ "context" \in error_str /\ ("length" \in error_str \/ "too long" \in error_str)

\* the test without its first half: retry whatever attempts are left
ShouldRetryWhileRetryable(attempt_no, retries, e) == is_retryable_error(e.text)

\* the test of the except clause that decides to retry
ShouldRetry(attempt_no, retries, e) ==
    attempt_no < retries /\ is_retryable_error(e.text)

\* a delay rounded to the nearest millisecond instead of cut to whole ones
BackoffMsRounded(backoff) == (backoff + 500) \div 1000

\* int(backoff_sec * 1000): whole milliseconds of a delay
BackoffMs(backoff) == backoff \div 1000

\* the same test without the pre-flight flag
IsOverflowIgnoringFlag(e, handled) ==
    /\ "context" \in e.text
    /\ ("length" \in e.text \/ "too long" \in e.text)

\* the test that turns a context-overflow failure into the summarization signal
IsUnhandledOverflow(e, handled) ==
    /\ "context" \in e.text
    /\ ("length" \in e.text \/ "too long" \in e.text)
    /\ ~handled

\* raise ValueError("Context window exceeded. Use overflow_summarize.v1 prompt.") from e
SummarizeSignal(e) ==
    [kind |-> "ValueError",
     text |-> {"context", "window exceeded", "overflow_summarize.v1"},
     cause |-> e]

\* what the except clause raises once it does not retry
Propagated(e, handled) ==
    IF IsUnhandledOverflow(e, handled) THEN SummarizeSignal(e) ELSE e

\* Exception("Unknown error in LLM call")
UnknownError == [kind |-> "Exception", text |-> {"unknown error"}]

VARIABLES
    \* a caller of fit_within_context and count_messages_tokens
    f_messages, f_context, f_max, f_strategy, f_ret, f_counts, f_pc,
    \* the list and dict objects of that caller and of the call
    f_heap,
    \* a caller of reconcile_usage
    u_estimate, u_usage, u_ret, u_pc,
    \* the client, as constructed
    provider, max_retries, backoff_base, backoff_jitter, hard_prompt_cap,
    \* the arguments of one chat call
    arg_messages, arg_context,
    \* the locals of the chat call
    pc, messages, context_strs, token_counts, overflow_handled,
    attempt, retry_count, total_backoff_ms, last_error,
    \* its outcome: the returned dict, or the exception that left it
    result, raised,
    \* what the provider and the clock saw: attempts made, the message list
    \* each was dispatched with, delays slept
    calls, sent, slept,
    \* the wall clock (microseconds), the local start_time (None until
    \* assigned), and how long the latest provider call took
    now, start_time, took,
    \* chat calls running side by side on the one client: the retry locals,
    \* the outcome and the delays slept of each call
    k_pc, k_attempt, k_retry_count, k_total_backoff_ms, k_last_error,
    k_result, k_raised, k_slept,
    \* a call of a provider shim: the client's provider and model, the
    \* caller's temperature and max_tokens, and the request sent
    q_provider, q_model, q_temperature, q_max_tokens, q_params, q_pc

fvars == <<f_messages, f_context, f_max, f_strategy, f_ret, f_counts, f_pc, f_heap>>
uvars == <<u_estimate, u_usage, u_ret, u_pc>>
client == <<provider, max_retries, backoff_base, backoff_jitter, hard_prompt_cap>>
args == <<arg_messages, arg_context>>
fitted == <<messages, context_strs, token_counts, overflow_handled>>
retry_state == <<attempt, retry_count, total_backoff_ms, last_error>>
timing == <<now, start_time, took>>
cvars ==
    <<client, args, pc, fitted, retry_state, result, raised, calls, sent, slept, timing>>
kvars == <<k_pc, k_attempt, k_retry_count, k_total_backoff_ms, k_last_error,
           k_result, k_raised, k_slept>>
qvars == <<q_provider, q_model, q_temperature, q_max_tokens, q_params, q_pc>>
vars == <<fvars, uvars, cvars, kvars, qvars>>

\* the chat calls in flight at the same time
Calls == {"call_1", "call_2"}
\* the meta of a call that has not returned
NoMeta == [retry_count |-> -1, backoff_ms_total |-> -1]

NoRet == [messages |-> <<>>, context_strs |-> <<>>, meta |-> [overflow |-> FALSE]]
NoCounts == [input_tokens |-> 0, context_tokens |-> 0, estimated_total |-> 0]

\* the locals of a call that has not started
CallIdle ==
    /\ messages = <<>>
    /\ context_strs = <<>>
    /\ token_counts = NoCounts
    /\ overflow_handled = FALSE
    /\ attempt = 0
    /\ retry_count = 0
    /\ total_backoff_ms = 0
    /\ last_error = NoException
    /\ result = NoResult
    /\ raised = NoException
    /\ calls = 0
    /\ sent = <<>>
    /\ slept = <<>>
    /\ now = 0
    /\ start_time = None
    /\ took = 0

FitIdle ==
    /\ f_messages = <<>>
    /\ f_context = <<>>
    /\ f_max = 0
    /\ f_strategy = "truncate"
    /\ f_ret = NoRet
    /\ f_counts = NoCounts
    /\ f_pc = "idle"
    /\ f_heap = HeapOf(<<>>)

UsageIdle ==
    /\ u_estimate = NoCounts
    /\ u_usage = <<>>
    /\ u_ret = BaseUsage(NoCounts)
    /\ u_pc = "idle"

\* no calls side by side
ConcIdle ==
    /\ k_pc = [c \in Calls |-> "idle"]
    /\ k_attempt = [c \in Calls |-> 0]
    /\ k_retry_count = [c \in Calls |-> 0]
    /\ k_total_backoff_ms = [c \in Calls |-> 0]
    /\ k_last_error = [c \in Calls |-> NoException]
    /\ k_result = [c \in Calls |-> NoMeta]
    /\ k_raised = [c \in Calls |-> NoException]
    /\ k_slept = [c \in Calls |-> <<>>]

\* no request being built
RequestIdle ==
    /\ q_provider = "openai"
    /\ q_model = <<>>
    /\ q_temperature = None
    /\ q_max_tokens = None
    /\ q_params = <<>>
    /\ q_pc = "idle"

\* no client, no chat call
ChatIdle ==
    /\ provider = "openai"
    /\ max_retries = 0
    /\ backoff_base = 0
    /\ backoff_jitter = 0
    /\ hard_prompt_cap = 0
    /\ arg_messages = <<>>
    /\ arg_context = <<>>
    /\ pc = "idle"
    /\ CallIdle

\* ------------------------------------------------------- LLMClient.chat
\* a constructed client and a caller about to enter chat
Init ==
    /\ provider \in Providers
    /\ max_retries \in -1..MaxRetries
    /\ backoff_base \in BackoffBases
    /\ backoff_jitter \in BackoffJitters
    /\ hard_prompt_cap \in PromptCaps
    /\ arg_messages \in ChatMessageLists
    /\ arg_context \in ContextLists
    /\ pc = "entry"
    /\ CallIdle
    /\ FitIdle
    /\ UsageIdle
    /\ ConcIdle
    /\ RequestIdle

\* the pre-call step without the "recalculate after fitting"
PreCallKeepsFirstCount(msgs, ctx, cap) ==
    LET counts == count_messages_tokens(msgs, ctx)
    IN  IF cap # 0 /\ counts.estimated_total > cap
        THEN LET fit == fit_within_context(msgs, cap, "truncate", ctx)
             IN  [messages |-> fit.messages,
                  context_strs |-> fit.context_strs,
                  overflow_handled |-> Get(fit.meta, "overflow", FALSE),
                  token_counts |-> counts]
        ELSE [messages |-> msgs,
              context_strs |-> ctx,
              overflow_handled |-> FALSE,
              token_counts |-> counts]

\* the pre-call step fitting whenever a cap is set, over the cap or not
PreCallFitsUnderCap(msgs, ctx, cap) ==
    LET counts == count_messages_tokens(msgs, ctx)
    IN  IF cap # 0
        THEN LET fit == FitTruncate(msgs, ctx, cap, counts.estimated_total)
             IN  [messages |-> fit.messages,
                  context_strs |-> fit.context_strs,
                  overflow_handled |-> Get(fit.meta, "overflow", FALSE),
                  token_counts |->
                      count_messages_tokens(fit.messages, fit.context_strs)]
        ELSE [messages |-> msgs,
              context_strs |-> ctx,
              overflow_handled |-> FALSE,
              token_counts |-> counts]

\* pre-call estimation and the hard prompt cap: what the retry loop starts from
PreCall(msgs, ctx, cap) ==
    LET counts == count_messages_tokens(msgs, ctx)
    IN  IF cap # 0 /\ counts.estimated_total > cap
        THEN LET fit == fit_within_context(msgs, cap, "truncate", ctx)
             IN  [messages |-> fit.messages,
                  context_strs |-> fit.context_strs,
                  overflow_handled |-> Get(fit.meta, "overflow", FALSE),
                  token_counts |->
                      count_messages_tokens(fit.messages, fit.context_strs)]
        ELSE [messages |-> msgs,
              context_strs |-> ctx,
              overflow_handled |-> FALSE,
              token_counts |-> counts]

\* chat up to its loop: the pre-call step and the loop's initial state
Preflight ==
    /\ pc = "entry"
    /\ \E pre \in {PreCall(arg_messages, arg_context, hard_prompt_cap)} :
          /\ messages' = pre.messages
          /\ context_strs' = pre.context_strs
          /\ overflow_handled' = pre.overflow_handled
          /\ token_counts' = pre.token_counts
    /\ retry_count' = 0
    /\ total_backoff_ms' = 0
    /\ last_error' = NoException
    /\ attempt' = 0
    /\ pc' = "attempting"
    /\ UNCHANGED <<fvars, uvars, kvars, qvars, client, args, result, raised, calls, sent, slept, timing>>

\* an attempt whose provider call returns: the call returns its outcome
AttemptSucceeds ==
    /\ pc = "attempting"
    /\ attempt < max_retries + 1
    /\ \E raw \in RawReplies, duration \in Durations :
          LET start == StartTime(now, start_time)
              response == CallProvider(provider, raw)
          IN  /\ start_time' = Some(start)
              /\ now' = now + duration
              /\ took' = duration
              /\ result' = [text |-> response.text,
                            usage |-> reconcile_usage(token_counts, response.usage),
                            latency_ms |-> LatencyMs(now + duration, start),
                            raw |-> response.raw,
                            meta |-> [retry_count |-> retry_count,
                                      backoff_ms_total |-> total_backoff_ms,
                                      overflow_handled |-> overflow_handled]]
    /\ calls' = calls + 1
    /\ sent' = Append(sent, messages)
    /\ pc' = "returned"
    /\ UNCHANGED <<fvars, uvars, kvars, qvars, client, args, fitted, retry_state, raised, slept>>

\* an attempt whose provider call raises a retryable error with retries left:
\* count the retry, add the backoff and go to sleep
AttemptRetries ==
    /\ pc = "attempting"
    /\ attempt < max_retries + 1
    /\ \E e \in ProviderErrors, r \in 0..JitterSteps, duration \in FailDurations :
          /\ ShouldRetry(attempt, max_retries, e)
          /\ start_time' = Some(StartTime(now, start_time))
          /\ now' = now + duration
          /\ took' = duration
          /\ last_error' = e
          /\ retry_count' = retry_count + 1
          /\ LET backoff == calculate_backoff(backoff_base, backoff_jitter, attempt, r)
             IN  /\ total_backoff_ms' = total_backoff_ms + BackoffMs(backoff)
                 /\ slept' = Append(slept, backoff)
    /\ calls' = calls + 1
    /\ sent' = Append(sent, messages)
    /\ pc' = "sleeping"
    /\ UNCHANGED <<fvars, uvars, kvars, qvars, client, args, fitted, attempt, result, raised>>

\* a retry that does not advance the attempt counter
WakeUpSameAttempt ==
    /\ pc = "sleeping"
    /\ attempt' = attempt
    /\ pc' = "attempting"
    /\ now' = now + slept[Len(slept)]
    /\ UNCHANGED <<fvars, uvars, kvars, qvars, client, args, fitted, retry_count, total_backoff_ms,
                   last_error, result, raised, calls, sent, slept, start_time, took>>

\* a retry that makes room first: after a context-overflow error the oldest
\* message is left out of the next attempt
WakeUpRefits ==
    /\ pc = "sleeping"
    /\ attempt' = attempt + 1
    /\ messages' = IF "context" \in last_error.text /\ messages # <<>>
                   THEN Tail(messages) ELSE messages
    /\ pc' = "attempting"
    /\ now' = now + slept[Len(slept)]
    /\ UNCHANGED <<fvars, uvars, kvars, qvars, client, args, context_strs, token_counts,
                   overflow_handled, retry_count, total_backoff_ms,
                   last_error, result, raised, calls, sent, slept, start_time, took>>

\* time.sleep returns, the delay gone by, and the loop continues with the next
\* attempt
WakeUp ==
    /\ pc = "sleeping"
    /\ attempt' = attempt + 1
    /\ pc' = "attempting"
    /\ now' = now + slept[Len(slept)]
    /\ UNCHANGED <<fvars, uvars, kvars, qvars, client, args, fitted, retry_count, total_backoff_ms,
                   last_error, result, raised, calls, sent, slept, start_time, took>>

\* an attempt whose provider call raises and is not retried: the call raises
AttemptFails ==
    /\ pc = "attempting"
    /\ attempt < max_retries + 1
    /\ \E e \in ProviderErrors, duration \in FailDurations :
          /\ ~ShouldRetry(attempt, max_retries, e)
          /\ start_time' = Some(StartTime(now, start_time))
          /\ now' = now + duration
          /\ took' = duration
          /\ last_error' = e
          /\ raised' = Propagated(e, overflow_handled)
    /\ calls' = calls + 1
    /\ sent' = Append(sent, messages)
    /\ pc' = "raised"
    /\ UNCHANGED <<fvars, uvars, kvars, qvars, client, args, fitted, attempt, retry_count,
                   total_backoff_ms, result, slept>>

\* the function running off its end: Python returns None, nothing is raised
LoopFallsThroughReturnsNone ==
    /\ pc = "attempting"
    /\ ~(attempt < max_retries + 1)
    /\ pc' = "returned"
    /\ UNCHANGED <<fvars, uvars, kvars, qvars, client, args, fitted, retry_state, result, raised,
                   calls, sent, slept, timing>>

\* the loop ends without returning: raise last_error or Exception(...)
LoopFallsThrough ==
    /\ pc = "attempting"
    /\ ~(attempt < max_retries + 1)
    /\ raised' = IF last_error # NoException THEN last_error ELSE UnknownError
    /\ pc' = "raised"
    /\ UNCHANGED <<fvars, uvars, kvars, qvars, client, args, fitted, retry_state, result, calls, sent,
                   slept, timing>>

Next ==
    \/ Preflight
    \/ AttemptSucceeds
    \/ AttemptRetries
    \/ WakeUp
    \/ AttemptFails
    \/ LoopFallsThrough

Spec == Init /\ [][Next]_vars

\* --------------------------------------------- fit_within_context, alone
\* a caller holding a message list and context strings
FitInit ==
    /\ f_messages \in MessageLists
    /\ f_context \in ContextLists
    /\ f_max = 0
    /\ f_strategy = "truncate"
    /\ f_ret = NoRet
    /\ f_counts = NoCounts
    /\ f_pc = "ready"
    /\ f_heap = HeapOf(f_messages)
    /\ UsageIdle
    /\ ChatIdle
    /\ ConcIdle
    /\ RequestIdle

\* one call of fit_within_context
FitCall ==
    /\ f_pc = "ready"
    /\ \E max_context_tokens \in 0..MaxBudget, strategy \in Strategies :
          /\ f_max' = max_context_tokens
          /\ f_strategy' = strategy
          /\ f_ret' = fit_within_context(f_messages, max_context_tokens, strategy, f_context)
          /\ f_heap' = HeapAfterFit(f_heap, max_context_tokens, strategy, f_context)
    /\ f_pc' = "done"
    /\ UNCHANGED <<f_messages, f_context, f_counts, uvars, cvars, kvars, qvars>>

\* one call of count_messages_tokens
CountCall ==
    /\ f_pc = "ready"
    /\ f_counts' = count_messages_tokens(f_messages, f_context)
    /\ f_pc' = "counted"
    /\ UNCHANGED <<f_messages, f_context, f_max, f_strategy, f_ret, f_heap,
                   uvars, cvars, kvars, qvars>>

FitNext == FitCall \/ CountCall

FitSpec == FitInit /\ [][FitNext]_vars

\* ------------------------------------------------- reconcile_usage, alone
Estimates ==
    {count_messages_tokens(msgs, ctx) : msgs \in ChatMessageLists, ctx \in ContextLists}

\* a caller holding an estimate
UsageInit ==
    /\ u_estimate \in Estimates
    /\ u_usage = <<>>
    /\ u_ret = BaseUsage(NoCounts)
    /\ u_pc = "ready"
    /\ FitIdle
    /\ ChatIdle
    /\ ConcIdle
    /\ RequestIdle

\* one call of reconcile_usage; an absent usage (None) is the empty dict
ReconcileCall ==
    /\ u_pc = "ready"
    /\ \E provider_usage \in UsageMaps :
          /\ u_usage' = provider_usage
          /\ u_ret' = reconcile_usage(u_estimate, provider_usage)
    /\ u_pc' = "done"
    /\ UNCHANGED <<u_estimate, fvars, cvars, kvars, qvars>>

UsageNext == ReconcileCall

UsageSpec == UsageInit /\ [][UsageNext]_vars

\* ------------------------------------- chat calls side by side on one client
\* The retry loop of chat as in Spec, once per call. retry_count,
\* total_backoff_ms, last_error and attempt are locals of the call's frame;
\* the client's max_retries, backoff_base and backoff_jitter are only read.
\* The pre-call step works on the call's arguments alone and is left out.
ConcErrors ==
    {e \in ProviderErrors : e.text \in {{"429"}, {"timed out"}, {"401", "invalid api key"}}}

\* a counter kept on the client, counted up for every call at once
CountRetryShared(counts, c) == [d \in DOMAIN counts |-> counts[d] + 1]

\* retry_count += 1 in the frame of call c
CountRetry(counts, c) == [counts EXCEPT ![c] = @ + 1]

\* a client in use, every call past its pre-call step
ConcInit ==
    /\ provider = "openai"
    /\ max_retries \in 0..MaxRetries
    /\ backoff_base \in BackoffBases
    /\ backoff_jitter \in BackoffJitters
    /\ hard_prompt_cap = 0
    /\ arg_messages = <<>>
    /\ arg_context = <<>>
    /\ pc = "idle"
    /\ CallIdle
    /\ FitIdle
    /\ UsageIdle
    /\ RequestIdle
    /\ k_pc = [c \in Calls |-> "attempting"]
    /\ k_attempt = [c \in Calls |-> 0]
    /\ k_retry_count = [c \in Calls |-> 0]
    /\ k_total_backoff_ms = [c \in Calls |-> 0]
    /\ k_last_error = [c \in Calls |-> NoException]
    /\ k_result = [c \in Calls |-> NoMeta]
    /\ k_raised = [c \in Calls |-> NoException]
    /\ k_slept = [c \in Calls |-> <<>>]

\* the provider call of c returns: c returns its meta
CallSucceeds(c) ==
    /\ k_pc[c] = "attempting"
    /\ k_attempt[c] < max_retries + 1
    /\ k_result' = [k_result EXCEPT ![c] =
                       [retry_count |-> k_retry_count[c],
                        backoff_ms_total |-> k_total_backoff_ms[c]]]
    /\ k_pc' = [k_pc EXCEPT ![c] = "returned"]
    /\ UNCHANGED <<k_attempt, k_retry_count, k_total_backoff_ms, k_last_error,
                   k_raised, k_slept, fvars, uvars, cvars, qvars>>

\* the provider call of c raises a retryable error with retries left
CallRetries(c) ==
    /\ k_pc[c] = "attempting"
    /\ k_attempt[c] < max_retries + 1
    /\ \E e \in ConcErrors, r \in 0..JitterSteps :
          /\ ShouldRetry(k_attempt[c], max_retries, e)
          /\ k_last_error' = [k_last_error EXCEPT ![c] = e]
          /\ k_retry_count' = CountRetry(k_retry_count, c)
          /\ LET backoff ==
                     calculate_backoff(backoff_base, backoff_jitter, k_attempt[c], r)
             IN  /\ k_total_backoff_ms' =
                        [k_total_backoff_ms EXCEPT ![c] = @ + BackoffMs(backoff)]
                 /\ k_slept' = [k_slept EXCEPT ![c] = Append(@, backoff)]
    /\ k_pc' = [k_pc EXCEPT ![c] = "sleeping"]
    /\ UNCHANGED <<k_attempt, k_result, k_raised, fvars, uvars, cvars, qvars>>

\* the sleep of c ends
CallWakesUp(c) ==
    /\ k_pc[c] = "sleeping"
    /\ k_attempt' = [k_attempt EXCEPT ![c] = @ + 1]
    /\ k_pc' = [k_pc EXCEPT ![c] = "attempting"]
    /\ UNCHANGED <<k_retry_count, k_total_backoff_ms, k_last_error, k_result,
                   k_raised, k_slept, fvars, uvars, cvars, qvars>>

\* the provider call of c raises and is not retried
CallFails(c) ==
    /\ k_pc[c] = "attempting"
    /\ k_attempt[c] < max_retries + 1
    /\ \E e \in ConcErrors :
          /\ ~ShouldRetry(k_attempt[c], max_retries, e)
          /\ k_last_error' = [k_last_error EXCEPT ![c] = e]
          /\ k_raised' = [k_raised EXCEPT ![c] = Propagated(e, FALSE)]
    /\ k_pc' = [k_pc EXCEPT ![c] = "raised"]
    /\ UNCHANGED <<k_attempt, k_retry_count, k_total_backoff_ms, k_result, k_slept,
                   fvars, uvars, cvars, qvars>>

ConcNext ==
    \/ \E c \in Calls : CallSucceeds(c)
    \/ \E c \in Calls : CallRetries(c)
    \/ \E c \in Calls : CallWakesUp(c)
    \/ \E c \in Calls : CallFails(c)

ConcSpec == ConcInit /\ [][ConcNext]_vars

\* ------------------------------------- the request a provider shim sends
\* model names, as the characters startswith looks at
ModelNames ==
    {<<"o", "1", "-", "m">>, <<"o", "3", "-", "m">>, <<"o", "1">>,
     <<"o", "4", "-", "m">>, <<"g", "p", "t", "-", "4">>, <<"l", "l", "a", "m", "a">>}
\* temperature, in tenths, and max_tokens: not given, zero, or a usual value
Temperatures == {None, Some(0), Some(7)}
TokenLimits == {None, Some(0), Some(256)}

\* str.startswith
StartsWith(name, prefix) ==
    Len(name) >= Len(prefix) /\ SubSeq(name, 1, Len(prefix)) = prefix

\* the o1 series alone taken for reasoning models
IsReasoningModelO1Only(name) == StartsWith(name, <<"o", "1", "-">>)

\* is_reasoning_model of _call_openai
IsReasoningModel(name) ==
    \E prefix \in {<<"o", "1", "-">>, <<"o", "3", "-">>} : StartsWith(name, prefix)

\* params of _call_openai, up to params.update(kwargs); temperature and
\* max_tokens are parameters of their own and so never among the kwargs
OpenAIParams(name, temperature, max_tokens) ==
    LET is_reasoning_model == IsReasoningModel(name)
        base == [model |-> name]
        with_temperature ==
            IF temperature # None /\ ~is_reasoning_model
            THEN ("temperature" :> temperature) @@ base
            ELSE base
    IN  IF max_tokens # None
        THEN IF is_reasoning_model
             THEN ("max_completion_tokens" :> max_tokens) @@ with_temperature
             ELSE ("max_tokens" :> max_tokens) @@ with_temperature
        ELSE with_temperature

\* params of _call_groq
GroqParams(name, temperature, max_tokens) ==
    LET base == [model |-> name]
        with_temperature ==
            IF temperature # None THEN ("temperature" :> temperature) @@ base ELSE base
    IN  IF max_tokens # None
        THEN ("max_tokens" :> max_tokens) @@ with_temperature
        ELSE with_temperature

\* a client of an OpenAI-style provider and a caller's sampling parameters
RequestInit ==
    /\ q_provider \in {"openai", "groq"}
    /\ q_model \in ModelNames
    /\ q_temperature \in Temperatures
    /\ q_max_tokens \in TokenLimits
    /\ q_params = <<>>
    /\ q_pc = "ready"
    /\ FitIdle
    /\ UsageIdle
    /\ ChatIdle
    /\ ConcIdle

\* the shim builds its request
BuildRequest ==
    /\ q_pc = "ready"
    /\ q_params' = IF q_provider = "openai"
                   THEN OpenAIParams(q_model, q_temperature, q_max_tokens)
                   ELSE GroqParams(q_model, q_temperature, q_max_tokens)
    /\ q_pc' = "sent"
    /\ UNCHANGED <<q_provider, q_model, q_temperature, q_max_tokens,
                   fvars, uvars, cvars, kvars>>

RequestNext == BuildRequest

RequestSpec == RequestInit /\ [][RequestNext]_vars

\* ======================================================= claims on chat
Terminal == pc \in {"returned", "raised"}
IsContextOverflow(e) ==
    "context" \in e.text /\ ("length" \in e.text \/ "too long" \in e.text)

RECURSIVE SumSeq(_)
SumSeq(seq) == IF seq = <<>> THEN 0 ELSE seq[1] + SumSeq(Tail(seq))

\* the delays slept, each cut to whole milliseconds, summed
WholeMsSlept == SumSeq([i \in 1..Len(slept) |-> slept[i] \div 1000])

\* C1: for max_retries >= 0 a chat call invokes the provider at most
\* max_retries + 1 times, at every point of the call and when it has ended.
C1_RetryBudget == max_retries >= 0 => calls <= max_retries + 1

\* a call that used its whole budget of three attempts and then raised
C1_Witness ==
    pc = "raised" /\ max_retries = 2 /\ calls = 3 /\ retry_count = 2

\* C2 as stated: after k retried failures and a success the outcome reports
\* retry_count = k and backoff_ms_total equal to the sum of the k delays slept,
\* taken in milliseconds (1000 microseconds each).
C2_BackoffTotalIsTimeSlept ==
    pc = "returned" =>
        /\ result.meta.retry_count = calls - 1
        /\ result.meta.backoff_ms_total * 1000 = SumSeq(slept)

\* C2 amended: after k retried failures and a success the outcome reports
\* retry_count = k, one delay was slept per failed attempt index 0..k-1, and
\* backoff_ms_total is the sum of those delays each cut to whole milliseconds,
\* hence never above the time slept and less than k milliseconds below it.
C2_BackoffTotalIsWholeMs ==
    pc = "returned" =>
        /\ result.meta.retry_count = calls - 1
        /\ Len(slept) = calls - 1
        /\ \A i \in 1..Len(slept) :
              \E r \in 0..JitterSteps :
                 slept[i] = calculate_backoff(backoff_base, backoff_jitter, i - 1, r)
        /\ result.meta.backoff_ms_total = WholeMsSlept
        /\ result.meta.backoff_ms_total * 1000 <= SumSeq(slept)
        /\ SumSeq(slept) - result.meta.backoff_ms_total * 1000
              <= Len(slept) * 999

\* two retried failures, then a success, with delays that are no whole milliseconds
C2_Witness ==
    /\ pc = "returned"
    /\ calls = 3
    /\ result.meta.retry_count = 2
    /\ result.meta.backoff_ms_total = 4
    /\ SumSeq(slept) > 4000

\* C3: the failure a chat call raises carries the retry_count reached and the
\* total backoff spent.
C3_FailureCarriesRetryState ==
    pc = "raised" =>
        /\ "retry_count" \in DOMAIN raised
        /\ raised.retry_count = retry_count
        /\ "backoff_ms_total" \in DOMAIN raised
        /\ raised.backoff_ms_total = total_backoff_ms

\* C8: the delay computed for attempt index n lies between base * 2^n and
\* base * 2^n * (1 + jitter); the first retry uses n = 0.
C8_BackoffRange ==
    \A i \in 1..Len(slept) :
        /\ backoff_base * Pow2(i - 1) <= slept[i]
        /\ slept[i] * 100 <= backoff_base * Pow2(i - 1) * (100 + backoff_jitter)

\* a second retry whose delay carries jitter above the exponential term
C8_Witness ==
    /\ Len(slept) = 2
    /\ backoff_base > 0
    /\ slept[1] > backoff_base
    /\ slept[2] > backoff_base * 2
    /\ slept[2] * 100 = backoff_base * 2 * (100 + backoff_jitter)

\* C9: a provider context-overflow error that chat finally propagates reaches
\* the caller as the summarization signal when the pre-flight fit did not flag
\* overflow, and unchanged when it did; either way within the retry budget.
C9_OverflowPropagation ==
    (pc = "raised" /\ calls > 0 /\ IsContextOverflow(last_error)) =>
        /\ ~overflow_handled =>
              /\ raised.kind = "ValueError"
              /\ raised # last_error
              /\ raised.cause = last_error
              /\ "window exceeded" \in raised.text
        /\ overflow_handled => raised = last_error
        /\ calls <= max_retries + 1

\* the pre-flight fit flagged overflow, the provider kept answering context
\* overflow, and after the last retry the raw error reached the caller
C9_Witness ==
    /\ pc = "raised"
    /\ overflow_handled
    /\ IsContextOverflow(last_error)
    /\ retry_count = 2
    /\ calls = 3
    /\ raised = last_error

\* the other case: no overflow flagged, the signal replaces the raw error
C9_SignalReached ==
    /\ pc = "raised"
    /\ ~overflow_handled
    /\ IsContextOverflow(last_error)
    /\ raised.kind = "ValueError"

\* the outcome of a call is a result or an exception, never both, never neither
TerminalOutcome ==
    /\ pc = "returned" => result # NoResult /\ raised = NoException
    /\ pc = "raised" =>
          /\ raised # NoException /\ result = NoResult
          /\ calls > 0 => (raised = last_error \/ raised = SummarizeSignal(last_error))
    /\ ~Terminal => result = NoResult /\ raised = NoException

\* the steps a call can still take: 0 once it has ended, and smaller after every step
StepsLeft ==
    CASE pc = "entry" -> 2 * (max_retries + 2) + 1
      [] pc = "attempting" -> 2 * (max_retries + 2 - attempt)
      [] pc = "sleeping" -> 2 * (max_retries + 2 - attempt) - 1
      [] OTHER -> 0

\* some step of the call can be taken (the pre-call step has no condition of
\* its own once the call is entered)
CanStep ==
    \/ pc = "entry"
    \/ ENABLED (AttemptSucceeds \/ AttemptRetries \/ WakeUp \/ AttemptFails
                \/ LoopFallsThrough)

\* C10: every chat call ends, and ends in exactly one of two ways: it returns
\* an outcome or it raises; a last failure is never dropped.  A call that has
\* not ended can take a step, every step brings the end nearer, and at the end
\* there is a result or an exception, never both, never neither.
C10_ReturnsOrRaises ==
    /\ [](TerminalOutcome /\ StepsLeft >= 0 /\ (Terminal \/ CanStep))
    /\ [][StepsLeft' < StepsLeft]_vars

\* a client built with a negative max_retries: no attempt, and still a raise
C10_Witness ==
    pc = "raised" /\ max_retries = -1 /\ calls = 0 /\ raised = UnknownError

\* ===================================== claims on fit_within_context
IsSystem(m) == m.role = "system"
SystemOf(msgs) == SelectSeq(msgs, IsSystem)
NonSystemOf(msgs) == SelectSeq(msgs, LAMBDA m : ~IsSystem(m))
EndsWithMarker(text) ==
    Len(text) >= Len(Marker)
    /\ SubSeq(text, Len(text) - Len(Marker) + 1, Len(text)) = Marker
\* text is a token-boundary cut of orig followed by the marker
IsTruncationOf(text, orig) ==
    \E n \in 0..Len(encode(orig)) :
        text = decode(SubSeq(encode(orig), 1, n)) \o Marker
OverBudget == estimate_prompt_tokens(f_messages, f_context) > f_max
FitDone == f_pc = "done"

\* C4: after truncate-strategy fitting of an over-budget input the result's
\* estimated total is within the budget, or exactly one non-system message is
\* left and it carries the truncation marker.
C4_TruncateFitsOrFloor ==
    (FitDone /\ f_strategy = "truncate" /\ OverBudget) =>
        \/ estimate_prompt_tokens(f_ret.messages, f_ret.context_strs) <= f_max
        \/ /\ Len(NonSystemOf(f_ret.messages)) = 1
           /\ EndsWithMarker(NonSystemOf(f_ret.messages)[1].content)

\* C5: truncate-strategy fitting returns every system message of its input,
\* content and relative order unchanged, whatever the budget.
C5_SystemPreserved ==
    (FitDone /\ f_strategy = "truncate") =>
        SystemOf(f_ret.messages) = SystemOf(f_messages)

\* an over-budget input with two system messages around a user message whose
\* content was truncated
C5_Witness ==
    /\ FitDone /\ f_strategy = "truncate" /\ OverBudget
    /\ Len(f_messages) = 3
    /\ f_messages[1].role = "system" /\ f_messages[3].role = "system"
    /\ f_messages[1].content # f_messages[3].content
    /\ f_messages[2].role = "user"
    /\ f_ret.messages # f_messages
    /\ EndsWithMarker(f_ret.messages[3].content)

\* C6: an input within the budget comes back unchanged with overflow = false,
\* for every strategy, and fitting the result again changes nothing.
C6_NoOpFit ==
    (FitDone /\ ~OverBudget) =>
        /\ f_ret.messages = f_messages
        /\ f_ret.context_strs = f_context
        /\ f_ret.meta.overflow = FALSE
        /\ fit_within_context(f_ret.messages, f_max, f_strategy, f_ret.context_strs)
              = f_ret

\* an input exactly at the budget, with a system message that is not first
C6_Witness ==
    /\ FitDone /\ f_strategy = "truncate"
    /\ estimate_prompt_tokens(f_messages, f_context) = f_max
    /\ Len(f_messages) = 2
    /\ f_messages[1].role = "user" /\ f_messages[2].role = "system"
    /\ f_context # <<>>
    /\ f_ret.messages = f_messages

\* C7: truncate-strategy fitting of an over-budget input drops non-system
\* messages oldest first: the result is the system messages followed by a
\* suffix of the input's non-system messages, the last of them possibly
\* content-truncated, and messages_removed counts the dropped ones.
C7_OldestFirst ==
    (FitDone /\ f_strategy = "truncate" /\ OverBudget) =>
        LET kept == NonSystemOf(f_ret.messages)
            had == NonSystemOf(f_messages)
            k == Len(had) - Len(kept)
        IN  /\ k >= 0
            /\ f_ret.messages = SystemOf(f_messages) \o kept
            /\ f_ret.meta.messages_removed = k
            /\ \A i \in 1..Len(kept) - 1 : kept[i] = had[k + i]
            /\ kept # <<>> =>
                  /\ kept[Len(kept)].role = had[Len(had)].role
                  /\ \/ kept[Len(kept)] = had[Len(had)]
                     \/ IsTruncationOf(kept[Len(kept)].content,
                                       had[Len(had)].content)

\* [user, assistant, user] where dropping the first two suffices
C7_Witness ==
    /\ FitDone /\ f_strategy = "truncate" /\ OverBudget
    /\ Len(f_messages) = 3
    /\ f_messages[1].role = "user" /\ f_messages[2].role = "assistant"
    /\ f_messages[3].role = "user"
    /\ f_ret.messages = <<f_messages[3]>>
    /\ f_ret.meta.messages_removed = 2

\* [system, user, user] where dropping the older user message suffices
C7_WitnessSystemFirst ==
    /\ FitDone /\ f_strategy = "truncate" /\ OverBudget
    /\ Len(f_messages) = 3
    /\ f_messages[1].role = "user" /\ f_messages[2].role = "system"
    /\ f_messages[3].role = "user"
    /\ f_ret.messages = <<f_messages[2], f_messages[3]>>
    /\ f_ret.meta.messages_removed = 1

\* ============================================== claims on reconcile_usage
UsageDone == u_pc = "done"
HasKey(usage, key) == key \in DOMAIN usage
\* the value under a key, or Some(0) when the key is missing
CopiedOrZero(usage, key) == IF HasKey(usage, key) THEN usage[key] ELSE Some(0)
\* the count under a key, 0 when the key is missing or its value is None
CountOrZero(usage, key) ==
    IF HasKey(usage, key) /\ usage[key] # None
    THEN CHOOSE n \in usage[key] : TRUE
    ELSE 0

\* C11: a usage dict with the key prompt_tokens has its prompt, completion and
\* total counts copied as they are, a missing completion or total count being
\* 0, whether or not the dict also has the key promptTokenCount.
C11_OpenAIShapeCopied ==
    (UsageDone /\ HasKey(u_usage, "prompt_tokens")) =>
        /\ u_ret.prompt_tokens_actual = u_usage["prompt_tokens"]
        /\ u_ret.completion_tokens_actual = CopiedOrZero(u_usage, "completion_tokens")
        /\ u_ret.total_tokens_actual = CopiedOrZero(u_usage, "total_tokens")

\* {prompt_tokens: 10, completion_tokens: 5, total_tokens: 15} gives (10, 5, 15)
C11_Witness ==
    /\ UsageDone
    /\ DOMAIN u_usage = {"prompt_tokens", "completion_tokens", "total_tokens"}
    /\ u_usage["prompt_tokens"] = Some(10)
    /\ u_usage["completion_tokens"] = Some(5)
    /\ u_usage["total_tokens"] = Some(15)
    /\ u_ret.prompt_tokens_actual = Some(10)
    /\ u_ret.completion_tokens_actual = Some(5)
    /\ u_ret.total_tokens_actual = Some(15)

\* both namings in one dict, the counts differing: OpenAI's are the ones kept
C11_WitnessBothShapes ==
    /\ UsageDone
    /\ DOMAIN u_usage = {"prompt_tokens", "promptTokenCount"}
    /\ u_usage["prompt_tokens"] = Some(10)
    /\ u_usage["promptTokenCount"] = Some(5)
    /\ u_ret.prompt_tokens_actual = Some(10)
    /\ u_ret.total_tokens_actual = Some(0)

\* C12: a usage dict without prompt_tokens but with promptTokenCount gives the
\* prompt and completion counts of promptTokenCount and candidatesTokenCount,
\* each 0 when missing or None, and their sum as the total.
C12_GeminiShapeSummed ==
    (UsageDone /\ ~HasKey(u_usage, "prompt_tokens")
              /\ HasKey(u_usage, "promptTokenCount")) =>
        /\ u_ret.prompt_tokens_actual = Some(CountOrZero(u_usage, "promptTokenCount"))
        /\ u_ret.completion_tokens_actual =
              Some(CountOrZero(u_usage, "candidatesTokenCount"))
        /\ u_ret.total_tokens_actual =
              Some(CountOrZero(u_usage, "promptTokenCount")
                   + CountOrZero(u_usage, "candidatesTokenCount"))

\* {promptTokenCount: 10, candidatesTokenCount: 5} gives (10, 5, 15)
C12_Witness ==
    /\ UsageDone
    /\ DOMAIN u_usage = {"promptTokenCount", "candidatesTokenCount"}
    /\ u_usage["promptTokenCount"] = Some(10)
    /\ u_usage["candidatesTokenCount"] = Some(5)
    /\ u_ret.total_tokens_actual = Some(15)

\* a None count reads as 0
C12_WitnessNullCount ==
    /\ UsageDone
    /\ DOMAIN u_usage = {"promptTokenCount", "candidatesTokenCount"}
    /\ u_usage["promptTokenCount"] = None
    /\ u_usage["candidatesTokenCount"] = Some(5)
    /\ u_ret.prompt_tokens_actual = Some(0)
    /\ u_ret.total_tokens_actual = Some(5)

\* C13: the three estimate fields are always those of the estimate, and with a
\* usage that is absent, empty or has neither prompt_tokens nor
\* promptTokenCount the three actual fields are all None.
C13_EstimatesAlwaysActualsNone ==
    UsageDone =>
        /\ u_ret.input_tokens_est = u_estimate.input_tokens
        /\ u_ret.context_tokens_est = u_estimate.context_tokens
        /\ u_ret.total_est = u_estimate.estimated_total
        /\ (~HasKey(u_usage, "prompt_tokens") /\ ~HasKey(u_usage, "promptTokenCount")) =>
              /\ u_ret.prompt_tokens_actual = None
              /\ u_ret.completion_tokens_actual = None
              /\ u_ret.total_tokens_actual = None

\* a usage dict that has counts, but under neither recognised key
C13_Witness ==
    /\ UsageDone
    /\ DOMAIN u_usage = {"completion_tokens", "total_tokens", "candidatesTokenCount"}
    /\ u_usage["total_tokens"] = Some(15)
    /\ u_estimate.estimated_total > 3
    /\ u_ret.total_est = u_estimate.estimated_total
    /\ u_ret.total_tokens_actual = None

\* the empty (or absent) usage
C13_WitnessEmpty ==
    /\ UsageDone
    /\ DOMAIN u_usage = {}
    /\ u_ret.context_tokens_est > 0
    /\ u_ret.prompt_tokens_actual = None

\* ========================================= claims on count_messages_tokens
Counted == f_pc = "counted"

TokensOf(text) == Len(encode(text))
MessageCost(m) == 4 + TokensOf(m.content)

KnownStrategies == {"truncate", "summarize"}
FitEnded == f_pc \in {"done", "raised"}

\* C16: a configuration error is fatal, raised at once and never ignored; for
\* the fit strategy: a call of fit_within_context on an over-budget input with
\* a strategy that is neither "truncate" nor "summarize" ends by raising and
\* returns nothing.
C16_UnknownStrategyRaises ==
    (FitEnded /\ OverBudget /\ f_strategy \notin KnownStrategies) =>
        /\ f_pc = "raised"
        /\ f_ret = NoRet

\* the non-system messages of the input and of the output of a truncate fit
InOthers == NonSystemOf(f_messages)
OutOthers == NonSystemOf(f_ret.messages)
TruncateDone == FitDone /\ f_strategy = "truncate"

\* C19: a truncate fit of an input with a non-system message returns at least
\* one non-system message, and the last of them is the input's last: same
\* role, content the same or a truncation of it.
C19_LastTurnSurvives ==
    (TruncateDone /\ InOthers # <<>>) =>
        /\ OutOthers # <<>>
        /\ LET last_in == InOthers[Len(InOthers)]
               last_out == OutOthers[Len(OutOthers)]
           IN  /\ last_out.role = last_in.role
               /\ \/ last_out.content = last_in.content
                  \/ IsTruncationOf(last_out.content, last_in.content)

\* the drop loop stopped at one message with the estimate still over budget
C19_Witness ==
    /\ TruncateDone
    /\ Len(InOthers) >= 2
    /\ Len(OutOthers) = 1
    /\ estimate_prompt_tokens(f_ret.messages, f_context) > f_max
    /\ OutOthers[1].role = InOthers[Len(InOthers)].role

\* the messages as the drop loop left them: the system messages and the
\* newest non-system messages, as many as the output has
AfterDrop ==
    SystemOf(f_messages)
        \o SubSeq(InOthers, Len(InOthers) - Len(OutOthers) + 1, Len(InOthers))

\* the first n members of a sequence: none for n <= 0, all for n >= Len
FirstTokens(tokens, n) ==
    SubSeq(tokens, 1, IF n <= 0 THEN 0 ELSE IF n >= Len(tokens) THEN Len(tokens) ELSE n)

\* C20: in a truncate fit, when the estimate is still over budget after the
\* drop loop, the content of the last non-system message becomes its first
\* `available` tokens decoded, followed by the marker, with
\* available = max_context_tokens - (4 * (systemCount + 1) + 3).
C20_TruncatedToAvailable ==
    (/\ TruncateDone /\ OverBudget /\ OutOthers # <<>>
     /\ estimate_prompt_tokens(AfterDrop, f_context) > f_max) =>
        LET available == f_max - (4 * (Len(SystemOf(f_messages)) + 1) + 3)
            last_in == InOthers[Len(InOthers)]
        IN  OutOthers[Len(OutOthers)].content =
                decode(FirstTokens(encode(last_in.content), available)) \o Marker

\* ================================================ claims on the chat result
Returned == pc = "returned"

\* C15: the text a provider shim returns is a string, and it is "" when the
\* provider's reply carries no content; chat hands the shim's text on as it is.
C15_TextIsAString ==
    Returned =>
        /\ result.text # None
        /\ result.raw.content = None => result.text = Some("")

\* C17: latency_ms of a returned call is the duration of the attempt that
\* succeeded, in whole milliseconds, whatever the earlier attempts and the
\* sleeps between them took.
C17_LatencyOfLastAttempt ==
    Returned => result.latency_ms = took \div 1000

\* a call that failed, slept and then succeeded in 40.5 ms
C17_Witness ==
    /\ Returned
    /\ result.meta.retry_count >= 1
    /\ result.meta.backoff_ms_total > 0
    /\ SumSeq(slept) > 0
    /\ took = 40500
    /\ now > took + SumSeq(slept)
    /\ result.latency_ms = 40

\* =========================================== claims on calls side by side
\* the retry locals of one call
RetryLocals(c) ==
    <<k_attempt[c], k_retry_count[c], k_total_backoff_ms[c], k_last_error[c]>>

\* what call c must hold, counted from the delays c itself slept
OwnRetries(c) == Len(k_slept[c])
OwnBackoffMs(c) == SumSeq([i \in 1..Len(k_slept[c]) |-> k_slept[c][i] \div 1000])

\* C18: with chat calls running side by side on one client, under every
\* interleaving, the retry_count and backoff total of a call are those of its
\* own failures, during the call and in what it returns, and no step changes
\* the retry locals of more than one call.
C18_RetryStatePrivate ==
    /\ [](\A c \in Calls :
            /\ k_retry_count[c] = OwnRetries(c)
            /\ k_total_backoff_ms[c] = OwnBackoffMs(c)
            /\ k_last_error[c] = NoException <=> OwnRetries(c) = 0 /\ k_pc[c] # "raised"
            /\ k_pc[c] = "returned" =>
                  /\ k_result[c].retry_count = OwnRetries(c)
                  /\ k_result[c].backoff_ms_total = OwnBackoffMs(c))
    /\ [][\A c, d \in Calls :
            (RetryLocals(c)' # RetryLocals(c) /\ RetryLocals(d)' # RetryLocals(d))
                => c = d]_vars

\* one call has returned after two retries while the other is asleep after
\* its first
C18_Witness ==
    /\ k_pc["call_1"] = "returned"
    /\ k_result["call_1"].retry_count = 2
    /\ k_result["call_1"].backoff_ms_total > 0
    /\ k_pc["call_2"] = "sleeping"
    /\ k_retry_count["call_2"] = 1

\* ======================================= claims on the truncation of step 3
\* step 3 ran: a truncate fit still over budget after the drop loop
StillOverAfterDrop ==
    /\ TruncateDone /\ OverBudget /\ OutOthers # <<>>
    /\ estimate_prompt_tokens(AfterDrop, f_context) > f_max
AvailableTokens == f_max - (4 * (Len(SystemOf(f_messages)) + 1) + 3)
LastIn == InOthers[Len(InOthers)]
LastOut == OutOthers[Len(OutOthers)]
\* the content of the last message was rewritten
WasTruncated == StillOverAfterDrop /\ LastOut.content # LastIn.content

\* C21: when step 3 truncates with available <= 0 the content keeps no token
\* of the original and is just the marker; in general a truncated content
\* keeps at most max(available, 0) tokens of the original.
C21_NothingKeptWithoutRoom ==
    WasTruncated =>
        /\ AvailableTokens <= 0 => LastOut.content = Marker
        /\ \E n \in 0..(IF AvailableTokens > 0 THEN AvailableTokens ELSE 0) :
              /\ n <= Len(encode(LastIn.content))
              /\ LastOut.content = decode(SubSeq(encode(LastIn.content), 1, n)) \o Marker

\* ============================================ claims on error classification
\* what the retry policy means to retry
RetryableIndications == {"rate_limit", "server_error", "timeout", "context_overflow"}

\* C22: an error is taken for retryable exactly when it indicates rate
\* limiting, a server-side failure, a timeout or a context-length overflow:
\* a call sleeps only after such an error, and an error that ends a call with
\* retries left is none of these.
C22_RetryableIffIndicated ==
    /\ pc = "sleeping" => last_error.indicates \in RetryableIndications
    /\ (pc = "raised" /\ calls > 0 /\ attempt < max_retries) =>
          last_error.indicates \notin RetryableIndications

\* ================================== claims on the other strategies of the fit
\* C23: a summarize fit of an over-budget input rewrites nothing: it returns
\* the messages and the context strings as they came, with overflow true,
\* strategy "summarize" and an action flag for the caller.
C23_SummarizeOnlySignals ==
    (FitDone /\ f_strategy = "summarize" /\ OverBudget) =>
        /\ f_ret.messages = f_messages
        /\ f_ret.context_strs = f_context
        /\ f_ret.meta.overflow = TRUE
        /\ f_ret.meta.strategy = "summarize"
        /\ "action_required" \in DOMAIN f_ret.meta

\* an over-budget input with messages and context strings to rewrite
C23_Witness ==
    /\ FitDone /\ f_strategy = "summarize" /\ OverBudget
    /\ Len(f_messages) >= 2
    /\ f_context # <<>>
    /\ f_ret.meta.overflow = TRUE
    /\ f_ret.meta.original_tokens > f_max

\* C24: a fit of an over-budget input with a strategy that is neither
\* "truncate" nor "summarize" raises nothing and returns the messages and the
\* context as they came with overflow false, although they exceed the budget.
C24_UnknownStrategyNoOp ==
    (FitEnded /\ OverBudget /\ f_strategy \notin KnownStrategies) =>
        /\ f_pc = "done"
        /\ f_ret.messages = f_messages
        /\ f_ret.context_strs = f_context
        /\ f_ret.meta.overflow = FALSE
        /\ estimate_prompt_tokens(f_ret.messages, f_ret.context_strs) > f_max

\* strategy "drop" on an input over its budget
C24_Witness ==
    /\ FitDone /\ OverBudget
    /\ f_strategy = "drop"
    /\ Len(f_messages) >= 2
    /\ f_ret.meta.overflow = FALSE

\* ==================================================== claims on the request
\* an OpenAI request has been built
OpenAISent == q_pc = "sent" /\ q_provider = "openai"
\* the model's name begins with o1- or o3-
ReasoningTier ==
    /\ Len(q_model) >= 3
    /\ q_model[1] = "o" /\ q_model[2] \in {"1", "3"} /\ q_model[3] = "-"
Carries(key) == key \in DOMAIN q_params

C25_WitnessPassedThrough ==
    /\ OpenAISent
    /\ q_model = <<"o", "1">>
    /\ q_temperature = Some(0)
    /\ q_max_tokens = Some(0)
    /\ DOMAIN q_params = {"model", "temperature", "max_tokens"}

\* ================================== claims on the pre-flight step and the loop
\* the estimate of a message list and context strings, summed afresh
OwnEstimate(msgs, ctx) ==
    SumSeq([i \in 1..Len(msgs) |-> MessageCost(msgs[i])])
        + SumSeq([i \in 1..Len(ctx) |-> TokensOf(ctx[i])]) + 3
\* the caller's messages are over a configured cap
OverCap ==
    hard_prompt_cap # 0 /\ OwnEstimate(arg_messages, arg_context) > hard_prompt_cap
InLoop == pc \notin {"idle", "entry"}

\* C26: every provider attempt of one chat call is dispatched with the same
\* message list, the one the pre-flight step produced: once in the loop the
\* messages and context strings never change, also not for the retry of a
\* context-overflow error.
C26_SameMessagesEveryAttempt ==
    /\ [](\A i \in 1..Len(sent) : sent[i] = sent[1] /\ sent[i] = messages)
    /\ [][InLoop => messages' = messages /\ context_strs' = context_strs]_vars

\* a context-overflow error sent three times over, until the retries ran out
C26_Witness ==
    /\ pc = "raised"
    /\ Len(sent) = 3
    /\ IsContextOverflow(last_error)
    /\ sent[1] = sent[3]
    /\ sent[3] # <<>>

C27_WitnessUnderCap ==
    /\ Returned
    /\ hard_prompt_cap # 0
    /\ result.meta.overflow_handled = FALSE
    /\ sent[1] = arg_messages

\* C28: the estimate fields of the usage chat returns are those of the
\* messages dispatched: after a pre-flight fit they are counted again from
\* the fitted messages, not taken from the caller's.
C28_EstimatesOfDispatched ==
    Returned =>
        LET dispatched == sent[Len(sent)]
            input == SumSeq([i \in 1..Len(dispatched) |-> MessageCost(dispatched[i])])
            context == SumSeq([i \in 1..Len(context_strs) |-> TokensOf(context_strs[i])])
        IN  /\ result.usage.input_tokens_est = input
            /\ result.usage.context_tokens_est = context
            /\ result.usage.total_est = input + context + 3

\* a fitted call: the estimate returned is below that of the caller's messages
C28_Witness ==
    /\ Returned
    /\ overflow_handled
    /\ result.usage.total_est < OwnEstimate(arg_messages, arg_context)
    /\ result.usage.total_est = OwnEstimate(sent[1], context_strs)

\* C29: chat sleeps only between attempts: the sleeps are as many as
\* retry_count and as the failed attempts that were retried, a sleep is
\* always followed by another attempt, and no sleep follows the last failed
\* attempt or an error that is not retryable.
C29_SleepsOnlyBetweenAttempts ==
    /\ [](/\ Len(slept) = retry_count
          /\ pc = "sleeping" => Len(slept) = calls /\ attempt < max_retries
          /\ pc = "attempting" => Len(slept) = calls
          /\ (pc = "attempting" /\ calls > 0) => attempt < max_retries + 1
          /\ (Terminal /\ calls > 0) => Len(slept) = calls - 1)
    /\ [][pc = "sleeping" => pc' = "attempting" /\ attempt' < max_retries + 1]_vars

\* retries used up: three attempts, two sleeps, none after the last failure
C29_Witness ==
    /\ pc = "raised"
    /\ calls = 3
    /\ max_retries = 2
    /\ is_retryable_error(last_error.text)
    /\ Len(slept) = 2
    /\ retry_count = 2

\* an error that is not retryable on the first attempt: no sleep at all
C29_WitnessFatal ==
    /\ pc = "raised"
    /\ calls = 1
    /\ max_retries = 2
    /\ slept = <<>>

\* ============================================ claims on the caller's objects
\* the caller's list as the caller sees it after the call
CallerMessages == [i \in 1..Len(f_heap.messages) |-> f_heap.dicts[f_heap.messages[i]]]
\* the list the call handed back
ReturnedMessages == [i \in 1..Len(f_heap.returned) |-> f_heap.dicts[f_heap.returned[i]]]

\* C30: fit_within_context does not change its arguments: after the call the
\* caller's list has the messages it had, in the same order and with the same
\* contents, whatever was dropped or truncated in the list returned, and the
\* context strings are returned as they came.
C30_ArgumentsNotMutated ==
    FitDone =>
        /\ CallerMessages = f_messages
        /\ ReturnedMessages = f_ret.messages
        /\ f_ret.context_strs = f_context

\* a fit that dropped a message and truncated the last one
C30_Witness ==
    /\ TruncateDone
    /\ Len(f_messages) = 3
    /\ Len(ReturnedMessages) = 2
    /\ EndsWithMarker(ReturnedMessages[2].content)
    /\ ~EndsWithMarker(CallerMessages[3].content)
    /\ Len(f_heap.dicts) = 4

====
